---- MODULE Spec2Model ----
(***************************************************************************)
(* A model of scraper.py: the discovery / merge / enrich pipeline.         *)
(*                                                                         *)
(* Strings are sequences of letters.  A letter is an atomic run of         *)
(* characters holding no separator: "k" and "K" are one domain name in     *)
(* lower and upper case, " " is whitespace, "/" the URL separator and      *)
(* "https:" the scheme.  str.lower, str.strip and str.split are computed   *)
(* on these sequences as Python computes them on characters.               *)
(*                                                                         *)
(* A CSV file is a record [exists, rows]: rows is the sequence of rows     *)
(* the reader delivers (the tabular store itself is not modelled).         *)
(***************************************************************************)
EXTENDS Integers, Sequences, FiniteSets, TLC

VARIABLES
    pd,             \* TRUE iff the pandas import succeeded (scraper.py:13-16)
    pc,             \* position of the run
    args,           \* the parameters of the call(s) under way
    fs,             \* the data directory: file name -> [exists, rows]
    merge_out,      \* what the last merge_raw_sources call wrote
    text,           \* classify_category's input, as lexicon hit counts
    cat,            \* classify_category's result
    sd,             \* run_search_discovery's loop
    cs,             \* run_conference_scrape's loop
    en,             \* enrich's loop
    err,            \* the exception that ended the run, "" if none
    ret             \* what the function called on its own returned

vars == <<pd, pc, args, fs, merge_out, text, cat, sd, cs, en, err, ret>>

---------------------------------------------------------------------------
(* Bounds of the model *)

MaxRows == 3        \* rows in the two merge inputs together
MaxCap == 2         \* largest max_total_rows tried
MaxHits == 3        \* phrases of one lexicon found in a text
MaxQueries == 2     \* queries of SEARCH_QUERIES issued (32 in the source)
MaxResults == 2     \* results one search returns
MaxExhibitors == 1  \* entries of one conference page
MaxEnrichRows == 1  \* rows of enrich's input file, in SpecEnrich
MaxPhrases == 2     \* lexicon phrases in one fetched page, in SpecEnrich
MaxSegments == 3    \* segments of a title, in SpecClean
MaxChunks == 3      \* pieces of a page text, in SpecHq
MaxCards == 3       \* entries of a page, in SpecParse
MaxListed == 2      \* entries of a conference page, in SpecDiscovery

---------------------------------------------------------------------------
(* Strings *)

\* str.lower on one letter: the upper-case letters of the model's alphabet.
LowerChar(c) ==
    CASE c = "K" -> "k"
      [] c = "O" -> "o"
      [] c = "B" -> "b"
      [] c = "N" -> "n"
      [] c = "Managed" -> "managed"
      [] c = "IT" -> "it"
      [] c = "NextGen" -> "nextgen"
      [] c = "Services" -> "services"
      [] c = "For" -> "for"
      [] c = "Hedge" -> "hedge"
      [] c = "Funds" -> "funds"
      [] c = "Omega" -> "omega"
      [] c = "Systems" -> "systems"
      [] c = "Citadel" -> "citadel"
      [] c = "Based in" -> "based in"
      [] c = "Chicago" -> "chicago"
      [] c = "IL" -> "il"
      [] OTHER -> c

Lower(s) == [i \in 1..Len(s) |-> LowerChar(s[i])]

RECURSIVE LStrip(_)
LStrip(s) == IF s # <<>> /\ Head(s) = " " THEN LStrip(Tail(s)) ELSE s

RECURSIVE RStrip(_)
RStrip(s) ==
    IF s # <<>> /\ s[Len(s)] = " " THEN RStrip(SubSeq(s, 1, Len(s) - 1)) ELSE s

Strip(s) == RStrip(LStrip(s))

\* str.split(sep): "a//b" -> ["a", "", "b"], "" -> [""].
RECURSIVE SplitAcc(_, _, _, _)
SplitAcc(s, sep, cur, acc) ==
    IF s = <<>> THEN Append(acc, cur)
    ELSE IF Head(s) = sep THEN SplitAcc(Tail(s), sep, <<>>, Append(acc, cur))
    ELSE SplitAcc(Tail(s), sep, Append(cur, Head(s)), acc)

Split(s, sep) == SplitAcc(s, sep, <<>>, <<>>)

\* url.split("/")[2].lower(), and url.lower() on IndexError.
domain_from_url(url) ==
    LET parts == Split(url, "/")
    IN  IF Len(parts) >= 3 THEN Lower(parts[3]) ELSE Lower(url)

---------------------------------------------------------------------------
(* Rows and files *)

\* A row of the nine-column schema.  Notes and Conference, which no code
\* reads after the row is built, are left out, and so is HQ, which enrich
\* fills from guess_hq and normalize_hq and nothing else depends on.
Row(name, website, source) ==
    [Name |-> name, Website |-> website, Category |-> "", Fit |-> "",
     Classification |-> "", Source |-> source]

NoFile == [exists |-> FALSE, rows |-> <<>>]
File(rows) == [exists |-> TRUE, rows |-> rows]

SeqsUpTo(S, n) == UNION {[1..k -> S] : k \in 0..n}

RECURSIVE Concat(_)
Concat(ss) == IF ss = <<>> THEN <<>> ELSE Head(ss) \o Concat(Tail(ss))

Head_(rows, n) == SubSeq(rows, 1, IF Len(rows) < n THEN Len(rows) ELSE n)

---------------------------------------------------------------------------
(* merge_raw_sources *)

\* website_norm without .str.lower(): the case of a website would tell
\* two rows apart.
website_norm_no_lower(r) == Strip(r.Website)

\* merged["Website"].astype(str).str.strip().str.lower()
website_norm(r) == Lower(Strip(r.Website))

\* row[subset]: a column of the merged frame.
Column(r, subset) == IF subset = "website_norm" THEN website_norm(r) ELSE r[subset]

\* DataFrame.drop_duplicates(subset=[subset]): the first row of each value
\* of the column, in order.
RECURSIVE DropDupAcc(_, _, _, _)
DropDupAcc(rows, subset, seen, acc) ==
    IF rows = <<>> THEN acc
    ELSE LET r == Head(rows)
             k == Column(r, subset)
         IN  IF k \in seen
             THEN DropDupAcc(Tail(rows), subset, seen, acc)
             ELSE DropDupAcc(Tail(rows), subset, seen \cup {k}, Append(acc, r))

drop_duplicates(rows, subset) == DropDupAcc(rows, subset, {}, <<>>)

\* max_total_rows is not None and max_total_rows > 0 and len(rows) > max_total_rows
Truncate(rows, max_total_rows) ==
    IF max_total_rows > 0 /\ Len(rows) > max_total_rows
    THEN Head_(rows, max_total_rows)
    ELSE rows

\* The pandas branch.  What it writes, or NoFile when it returns early.
merge_pandas(search_csv, conf_csv, max_total_rows) ==
    LET frames == SelectSeq(<<search_csv, conf_csv>>, LAMBDA f : f.exists)
    IN  IF frames = <<>> THEN NoFile
        ELSE LET merged == Concat([i \in 1..Len(frames) |-> frames[i].rows])
                 with_site == SelectSeq(merged, LAMBDA r : website_norm(r) # <<>>)
                 without_site == SelectSeq(merged, LAMBDA r : website_norm(r) = <<>>)
                 all == drop_duplicates(with_site, "website_norm")
                        \o drop_duplicates(without_site, "Name")
             IN  File(Truncate(all, max_total_rows))

\* load(path) of the csv branch: st is <<all_rows, websites_seen>>.
RECURSIVE load(_, _)
load(rows, st) ==
    IF rows = <<>> THEN st
    ELSE LET r == Head(rows)
             w == Lower(Strip(r.Website))
         IN  IF w = <<>> \/ w \in st[2]
             THEN load(Tail(rows), st)
             ELSE load(Tail(rows), <<Append(st[1], r), st[2] \cup {w}>>)

\* The csv branch: a missing file is caught in load and skipped.
merge_csv(search_csv, conf_csv, max_total_rows) ==
    LET st1 == load(search_csv.rows, <<<<>>, {}>>)
        st2 == load(conf_csv.rows, st1)
        all_rows == st2[1]
    IN  IF all_rows = <<>> THEN NoFile
        ELSE File(Truncate(all_rows, max_total_rows))

merge_raw_sources(search_csv, conf_csv, max_total_rows) ==
    IF pd THEN merge_pandas(search_csv, conf_csv, max_total_rows)
    ELSE merge_csv(search_csv, conf_csv, max_total_rows)

---------------------------------------------------------------------------
(* classify_category *)

\* The keys of the score dict, in insertion order.
Categories ==
    <<"Financial MSP", "Trading Infra MSP", "Market Data Ops",
      "OMS/EMS & FIX", "RegOps / Surveillance", "Generic IT">>

\* The score dict built from the six hit counts of the text t.
Score(t) ==
    [c \in {Categories[i] : i \in 1..6} |->
        CASE c = "Financial MSP" ->
                IF t.finance > 0 /\ t.msp > 0 THEN t.finance * 3 + t.msp * 2
                ELSE IF t.finance > 0 THEN t.finance * 2
                ELSE IF t.msp > 0 THEN t.msp
                ELSE 0
          [] c = "Trading Infra MSP" -> IF t.trading > 0 THEN t.trading * 3 ELSE 0
          [] c = "Market Data Ops" -> IF t.md > 0 THEN t.md * 3 ELSE 0
          [] c = "OMS/EMS & FIX" ->
                IF t.oms >= 2 THEN t.oms * 3
                ELSE IF t.oms = 1 /\ (t.trading > 0 \/ t.md > 0 \/ t.fx) THEN 3
                ELSE 0
          [] c = "RegOps / Surveillance" -> IF t.reg > 0 THEN t.reg * 3 ELSE 0
          [] c = "Generic IT" ->
                IF /\ t.msp > 0 /\ t.finance = 0 /\ t.trading = 0
                   /\ t.md = 0 /\ t.oms = 0 /\ t.reg = 0
                THEN 1 ELSE 0]

\* max(score, key=score.get): the keys are visited in insertion order and
\* a later key replaces the best one only with a strictly greater score.
RECURSIVE MaxKeyFrom(_, _, _)
MaxKeyFrom(score, i, best) ==
    IF i > Len(Categories) THEN best
    ELSE MaxKeyFrom(score, i + 1,
            IF score[Categories[i]] > score[best] THEN Categories[i] ELSE best)

\* max() keeping the last of the keys with the maximal score.
RECURSIVE MaxKeyLastFrom(_, _, _)
MaxKeyLastFrom(score, i, best) ==
    IF i > Len(Categories) THEN best
    ELSE MaxKeyLastFrom(score, i + 1,
            IF score[Categories[i]] >= score[best] THEN Categories[i] ELSE best)

MaxKey_last_wins(score) == MaxKeyLastFrom(score, 2, Categories[1])

MaxKey(score) == MaxKeyFrom(score, 2, Categories[1])

classify_category(t) ==
    LET score == Score(t)
        cat0 == MaxKey(score)
        cat1 == IF score[cat0] = 0 THEN "Generic IT" ELSE cat0
    IN  IF t.finance > 0 /\ t.msp > 0 /\ score["Financial MSP"] >= score[cat1]
        THEN "Financial MSP"
        ELSE cat1

---------------------------------------------------------------------------
(* clean_result_name *)

Separators == {"|", "-", ":"}

\* re.split on a separator with the whitespace around it.
RECURSIVE SplitSepAcc(_, _, _)
SplitSepAcc(s, cur, acc) ==
    IF s = <<>> THEN Append(acc, cur)
    ELSE IF Head(s) \in Separators THEN SplitSepAcc(Tail(s), <<>>, Append(acc, cur))
    ELSE SplitSepAcc(Tail(s), Append(cur, Head(s)), acc)

\* [p.strip() for p in parts if p.strip()]
Parts(title) ==
    LET raw == SplitSepAcc(title, <<>>, <<>>)
        stripped == [i \in 1..Len(raw) |-> Strip(raw[i])]
    IN  SelectSeq(stripped, LAMBDA p : p # <<>>)

\* The marketing words the model's alphabet can spell.
marketing_words == {"managed", "services", "service", "it", "hedge", "fund"}

\* word in lower, for the letter run l of lower: the substring test.  A
\* run holds the words equal to it and those spelled inside it.
Occurs(word, l) ==
    \/ word = l
    \/ <<word, l>> \in {<<"fund", "funds">>, <<"service", "services">>,
                        <<"it", "citadel">>}

looks_like_marketing(s) ==
    \E i \in 1..Len(s) : \E word \in marketing_words :
        Occurs(word, Lower(s)[i])

\* len(text.split())
WordCount(s) == Len(SelectSeq(Split(s, " "), LAMBDA w : w # <<>>))

\* clean_result_name as its docstring has it: when both segments look like
\* marketing the brand is returned.
clean_result_name_brand_first(title, domain_fallback) ==
    IF title = <<>> THEN domain_fallback
    ELSE LET parts == Parts(title)
         IN  IF parts = <<>>
             THEN (IF Strip(title) # <<>> THEN Strip(title) ELSE domain_fallback)
             ELSE LET base == parts[1]
                      brand == IF Len(parts) > 1 THEN parts[Len(parts)] ELSE <<>>
                  IN  IF brand # <<>> THEN brand
                      ELSE IF base # <<>> THEN base ELSE domain_fallback

clean_result_name(title, domain_fallback) ==
    IF title = <<>> THEN domain_fallback
    ELSE LET parts == Parts(title)
         IN  IF parts = <<>>
             THEN (IF Strip(title) # <<>> THEN Strip(title) ELSE domain_fallback)
             ELSE LET base == parts[1]
                      brand == IF Len(parts) > 1 THEN parts[Len(parts)] ELSE <<>>
                  IN  IF brand # <<>> /\ WordCount(brand) <= 6
                         /\ ~looks_like_marketing(brand)
                      THEN brand
                      ELSE IF brand # <<>> /\ looks_like_marketing(base)
                              /\ ~looks_like_marketing(brand)
                      THEN brand
                      ELSE IF base # <<>> THEN base ELSE domain_fallback

---------------------------------------------------------------------------
(* guess_hq *)

\* The runs of a page text that are not words: comma, blank and full stop.
\* Every other run is a word or a phrase, spelled with [a-z] and blanks
\* once lower-cased.
Punctuation == {",", " ", "."}

IsAlpha(l) == l \notin Punctuation

\* The number of characters of a run.
Width(l) ==
    CASE l \in Punctuation -> 1
      [] l \in {"il", "ny", "uk"} -> 2
      [] l = "chicago" -> 7
      [] l = "london" -> 6
      [] l = "new york" -> 8
      [] l = "springfield" -> 11
      [] l = "based in" -> 8
      [] l = "headquartered in" -> 16
      [] l = "headquarters in" -> 15
      [] OTHER -> 2

RECURSIVE TextWidth(_)
TextWidth(s) == IF s = <<>> THEN 0 ELSE Width(Head(s)) + TextWidth(Tail(s))

\* The first two characters of a word: what [a-z]{2} takes of it.
First2(l) ==
    CASE l = "chicago" -> "ch"
      [] l = "london" -> "lo"
      [] l = "new york" -> "ne"
      [] l = "springfield" -> "sp"
      [] l = "based in" -> "ba"
      [] l \in {"headquartered in", "headquarters in"} -> "he"
      [] OTHER -> l

\* str.title() and str.upper() on one word.
TitleChar(l) ==
    CASE l = "chicago" -> "Chicago"
      [] l = "london" -> "London"
      [] l = "new york" -> "New York"
      [] l = "springfield" -> "Springfield"
      [] l = "based in" -> "Based In"
      [] l = "headquartered in" -> "Headquartered In"
      [] l = "headquarters in" -> "Headquarters In"
      [] l = "il" -> "Il"
      [] l = "ny" -> "Ny"
      [] l = "uk" -> "Uk"
      [] l = "ch" -> "Ch"
      [] l = "lo" -> "Lo"
      [] l = "ne" -> "Ne"
      [] l = "sp" -> "Sp"
      [] l = "ba" -> "Ba"
      [] l = "he" -> "He"
      [] OTHER -> l

UpperChar(l) ==
    CASE l = "il" -> "IL"
      [] l = "ny" -> "NY"
      [] l = "uk" -> "UK"
      [] l = "ch" -> "CH"
      [] l = "lo" -> "LO"
      [] l = "ne" -> "NE"
      [] l = "sp" -> "SP"
      [] l = "ba" -> "BA"
      [] l = "he" -> "HE"
      [] l = "chicago" -> "CHICAGO"
      [] l = "london" -> "LONDON"
      [] l = "new york" -> "NEW YORK"
      [] l = "springfield" -> "SPRINGFIELD"
      [] OTHER -> l

\* str.title() on a run that continues the word before it: only the
\* words that start inside the run are capitalized.
TitleTailChar(l) ==
    CASE l = "new york" -> "new York"
      [] l = "based in" -> "based In"
      [] l = "headquartered in" -> "headquartered In"
      [] l = "headquarters in" -> "headquarters In"
      [] OTHER -> l

Title(s) ==
    [i \in 1..Len(s) |->
        IF i > 1 /\ IsAlpha(s[i - 1]) THEN TitleTailChar(s[i])
        ELSE TitleChar(s[i])]
Upper(s) == [i \in 1..Len(s) |-> UpperChar(s[i])]

\* hq_patterns, in the order they are tried.
hq_patterns == <<"headquartered in", "based in", "headquarters in">>

\* The index of the first run after k that is not a blank (\s*), or
\* Len(t) + 1.
RECURSIVE SkipBlanks(_, _)
SkipBlanks(t, k) ==
    IF k + 1 <= Len(t) /\ t[k + 1] = " " THEN SkipBlanks(t, k + 1) ELSE k + 1

\* The last index of the run of [a-z ,] that starts at i (i - 1 if none).
RECURSIVE RunEnd(_, _)
RunEnd(t, i) ==
    IF i <= Len(t) /\ t[i] # "." THEN RunEnd(t, i + 1) ELSE i - 1

\* The commas at which ([a-z ,]+,\s*[a-z]{2}) can end when the phrase is
\* at p: one character at least is captured before the comma, and a word
\* follows it.
CommasAfter(t, p) ==
    {k \in (p + 3)..RunEnd(t, p + 2) :
        /\ t[k] = ","
        /\ SkipBlanks(t, k) <= Len(t)
        /\ IsAlpha(t[SkipBlanks(t, k)])}

\* re.search(pat, t): the places where the pattern matches.
PhraseMatches(t, pat) ==
    {p \in 1..(Len(t) - 1) :
        t[p] = pat /\ t[p + 1] = " " /\ CommasAfter(t, p) # {}}

Min(S) == CHOOSE x \in S : \A y \in S : x <= y
Max(S) == CHOOSE x \in S : \A y \in S : x >= y

\* m.group(1) of the leftmost match: the capture is greedy, it ends at
\* the last comma that will do.
PhraseCapture(t, pat) ==
    LET p == Min(PhraseMatches(t, pat))
        k == Max(CommasAfter(t, p))
        w == SkipBlanks(t, k)
    IN  SubSeq(t, p + 2, w - 1) \o <<First2(t[w])>>

\* What the branch of a matched pattern returns.
PhraseResult(t, pat) ==
    LET loc == Strip(PhraseCapture(t, pat))
        raw == Split(loc, ",")
        parts == [i \in 1..Len(raw) |-> Strip(raw[i])]
    IN  IF Len(parts) = 2
        THEN Title(parts[1]) \o <<",", " ">> \o Upper(parts[2])
        ELSE Title(loc)

\* The first pattern of hq_patterns that matches, 0 if none.
FirstPattern(t) ==
    IF \E i \in 1..Len(hq_patterns) : PhraseMatches(t, hq_patterns[i]) # {}
    THEN Min({i \in 1..Len(hq_patterns) : PhraseMatches(t, hq_patterns[i]) # {}})
    ELSE 0

\* hub_map, in its order: New York, Chicago and London of the 22 entries.
hub_map ==
    <<[keys |-> {"new york", "nyc"}, label |-> <<"New York", ",", " ", "NY">>],
      [keys |-> {"chicago"}, label |-> <<"Chicago", ",", " ", "IL">>],
      [keys |-> {"london"}, label |-> <<"London", ",", " ", "UK">>]>>

\* any(k in t for k in keys)
HubHit(t, keys) == \E i \in 1..Len(t) : t[i] \in keys

FirstHub(t) ==
    IF \E i \in 1..Len(hub_map) : HubHit(t, hub_map[i].keys)
    THEN Min({i \in 1..Len(hub_map) : HubHit(t, hub_map[i].keys)})
    ELSE 0

\* The state codes of generic_us the model's alphabet can spell.
states == {"il", "ny"}

\* The comma that ends the city of generic_us when the city starts at i:
\* the first comma after i, 0 if none.
RECURSIVE NextComma(_, _)
NextComma(t, i) ==
    IF i > Len(t) THEN 0
    ELSE IF t[i] = "," THEN i
    ELSE NextComma(t, i + 1)

\* generic_us matches with its city starting at i: a word at a word
\* boundary, 3 to 41 characters of [a-z .] up to a comma, then a state
\* code that ends at a word boundary.  (The optional ZIP needs digits,
\* which the alphabet does not have.)
GenericAt(t, i) ==
    /\ IsAlpha(t[i])
    /\ i = 1 \/ ~IsAlpha(t[i - 1])
    /\ LET j == NextComma(t, i)
           w == SkipBlanks(t, j)
       IN  /\ j # 0
           /\ TextWidth(SubSeq(t, i, j - 1)) >= 3
           /\ TextWidth(SubSeq(t, i, j - 1)) <= 41
           /\ w <= Len(t)
           /\ t[w] \in states
           /\ w = Len(t) \/ ~IsAlpha(t[w + 1])

GenericMatches(t) == {i \in 1..Len(t) : GenericAt(t, i)}

GenericResult(t) ==
    LET i == Min(GenericMatches(t))
        j == NextComma(t, i)
    IN  Title(Strip(SubSeq(t, i, j - 1))) \o <<",", " ">>
        \o <<UpperChar(t[SkipBlanks(t, j)])>>

\* guess_hq trying the hub map before the explicit phrases.
guess_hq_hubs_first(page_text) ==
    LET t == Lower(page_text)
    IN  IF FirstHub(t) # 0 THEN hub_map[FirstHub(t)].label
        ELSE IF FirstPattern(t) # 0 THEN PhraseResult(t, hq_patterns[FirstPattern(t)])
        ELSE IF GenericMatches(t) # {} THEN GenericResult(t)
        ELSE <<>>

guess_hq(page_text) ==
    LET t == Lower(page_text)
    IN  IF FirstPattern(t) # 0 THEN PhraseResult(t, hq_patterns[FirstPattern(t)])
        ELSE IF FirstHub(t) # 0 THEN hub_map[FirstHub(t)].label
        ELSE IF GenericMatches(t) # {} THEN GenericResult(t)
        ELSE <<>>

---------------------------------------------------------------------------
(* run_search_discovery *)

\* The domains dropped as noise (linkedin.com, indeed.com, ...).
SkipDomainLetters == {"linkedin.com"}

BatchRows == 25

\* The state of the loop: the next query, rows, seen_domains, total_rows,
\* whether the inner loop left by break, and the calls and sleeps so far.
SearchStart ==
    [q |-> 1, rows |-> <<>>, seen_domains |-> {}, total_rows |-> 0,
     stopped |-> FALSE, log |-> <<>>]

\* The cap test with > for >=: one row too many gets in.
CapReached_strict(max_rows, n) == max_rows > 0 /\ n > max_rows

\* max_rows and n >= max_rows
CapReached(max_rows, n) == max_rows > 0 /\ n >= max_rows

\* The loop over the results of one query; st.stopped after its break.
RECURSIVE ForResults(_, _, _, _)
ForResults(results, st, q, max_rows) ==
    IF results = <<>> THEN st
    ELSE LET r == Head(results)
             url == r.url
             domain == domain_from_url(url)
             name == clean_result_name(r.title, domain)
         IN  IF url = <<>> THEN ForResults(Tail(results), st, q, max_rows)
             ELSE IF \E i \in 1..Len(domain) : domain[i] \in SkipDomainLetters
             THEN ForResults(Tail(results), st, q, max_rows)
             ELSE IF domain \in st.seen_domains
             THEN ForResults(Tail(results), st, q, max_rows)
             ELSE LET total == st.total_rows + 1
                      st1 == [st EXCEPT
                                !.seen_domains = @ \cup {domain},
                                !.total_rows = total,
                                !.rows = Append(@,
                                    Row(IF name # <<>> THEN name ELSE domain,
                                        <<"https:", "/", "/">> \o domain,
                                        <<"search", q>>)),
                                !.log = IF total % BatchRows = 0
                                        THEN Append(@, "sleep30") ELSE @]
                  IN  IF CapReached(max_rows, total)
                      THEN [st1 EXCEPT !.stopped = TRUE]
                      ELSE ForResults(Tail(results), st1, q, max_rows)

\* One iteration whose search_web call raised: logged, then continue.
QueryFailed(st) ==
    [st EXCEPT !.q = @ + 1, !.log = Append(@, "search_failed")]

\* One iteration whose search_web call returned results.
QueryAnswered(st, results, max_rows) ==
    LET st1 == ForResults(results, [st EXCEPT !.log = Append(@, "search_ok")],
                          st.q, max_rows)
    IN  IF CapReached(max_rows, st1.total_rows)
        THEN [st1 EXCEPT !.stopped = TRUE]
        ELSE [st1 EXCEPT !.q = @ + 1, !.log = Append(@, "sleep5")]

---------------------------------------------------------------------------
(* run_conference_scrape *)

\* A page is [structure, entries]: whether the markup holds the elements
\* the parser selects (the exhibitor table; any sponsor card), and for each
\* entry found whether it has the element the name is read from (a second
\* cell; an h3), the text of that element and the href of its link.
StartsWith(s, letter) == s # <<>> /\ Head(s) = letter

FiaBase == <<"https:", "/", "/", "s7.goeshow.com", "/">>

\* A row needs two cells, and a name that is not empty once stripped.
parse_fia_expo(page, conf) ==
    IF ~page.structure THEN <<>>
    ELSE LET named == SelectSeq(page.entries,
                         LAMBDA e : e.name_el /\ Strip(e.name) # <<>>)
         IN  [i \in 1..Len(named) |->
                Row(Strip(named[i].name),
                    IF StartsWith(named[i].href, "https:") THEN named[i].href
                    ELSE IF \E k \in 1..Len(named[i].href) :
                                named[i].href[k] = "profile.cfm"
                    THEN FiaBase \o named[i].href
                    ELSE <<>>,
                    <<"conf", conf>>)]

\* A card needs an h3; its text is stripped and taken as it is.
parse_tradetech_fx(page, conf) ==
    IF ~page.structure THEN <<>>
    ELSE LET cards == SelectSeq(page.entries, LAMBDA e : e.name_el)
         IN  [i \in 1..Len(cards) |->
                Row(Strip(cards[i].name),
                    IF StartsWith(cards[i].href, "https:") THEN cards[i].href
                    ELSE IF StartsWith(cards[i].href, "www.")
                    THEN <<"https:", "/", "/">> \o cards[i].href
                    ELSE <<>>,
                    <<"conf", conf>>)]

\* conferences: FIA_Expo_2024 and TradeTech_FX_USA_2025, in this order.
NumConferences == 2

Parser(conf, page) ==
    IF conf = 1 THEN parse_fia_expo(page, conf) ELSE parse_tradetech_fx(page, conf)

ConfStart == [i |-> 1, all_rows |-> <<>>, stopped |-> FALSE, log |-> <<>>]

\* One iteration in which fetch_html or the parser raised.
ConfFailed(st, max_rows) ==
    IF CapReached(max_rows, Len(st.all_rows))
    THEN [st EXCEPT !.stopped = TRUE, !.log = Append(@, "conf_failed")]
    ELSE [st EXCEPT !.i = @ + 1, !.log = Append(@, "conf_failed")]

\* One iteration that fetched and parsed its page.
ConfParsed(st, page, max_rows) ==
    LET all_rows == st.all_rows \o Parser(st.i, page)
        st1 == [st EXCEPT !.all_rows = all_rows, !.log = Append(@, "conf_ok")]
    IN  IF CapReached(max_rows, Len(all_rows))
        THEN [st1 EXCEPT !.stopped = TRUE]
        ELSE [st1 EXCEPT !.i = @ + 1]

---------------------------------------------------------------------------
(* enrich *)

KNOWN_FINANCIAL_MSPS == {<<"k">>}
KNOWN_COMP_NAMES == {<<"b">>}

classify_fit(category) == IF category = "Generic IT" THEN "Stretch" ELSE "Core"

core_lanes ==
    {"Financial MSP", "Trading Infra MSP", "Market Data Ops", "OMS/EMS & FIX",
     "RegOps / Surveillance"}

classify_firm(row) ==
    IF row.Fit = "Core" /\ row.Category \in core_lanes
    THEN "Potential acquisition target (near-term)"
    ELSE "Pattern / Comp / Future Partner"

\* The loop body without the override for the known financial MSPs.
EnrichedRow_no_override(row, page_text) ==
    LET category == classify_category(page_text)
        row1 == [row EXCEPT !.Category = category, !.Fit = classify_fit(category)]
    IN  [row1 EXCEPT !.Classification =
            IF Lower(Strip(row.Name)) \in KNOWN_COMP_NAMES
            THEN "Pattern / Comp / Future Partner"
            ELSE classify_firm(row1)]

\* The loop body looking the raw Name up in KNOWN_COMP_NAMES.
EnrichedRow_raw_name(row, page_text) ==
    LET category0 == classify_category(page_text)
        known == domain_from_url(Strip(row.Website)) \in KNOWN_FINANCIAL_MSPS
        row1 == [row EXCEPT
                    !.Category = IF known THEN "Financial MSP" ELSE category0,
                    !.Fit = IF known THEN "Core" ELSE classify_fit(category0)]
    IN  [row1 EXCEPT !.Classification =
            IF row.Name \in KNOWN_COMP_NAMES
            THEN "Pattern / Comp / Future Partner"
            ELSE classify_firm(row1)]

\* The body of the loop for a row with a website, given the page text
\* fetch_site_text returned.
EnrichedRow(row, page_text) ==
    LET url == Strip(row.Website)
        domain == domain_from_url(url)
        category0 == classify_category(page_text)
        known == domain \in KNOWN_FINANCIAL_MSPS
        category == IF known THEN "Financial MSP" ELSE category0
        fit == IF known THEN "Core" ELSE classify_fit(category0)
        row1 == [row EXCEPT !.Category = category, !.Fit = fit]
        name_l == Lower(Strip(row.Name))
    IN  [row1 EXCEPT !.Classification =
            IF name_l \in KNOWN_COMP_NAMES
            THEN "Pattern / Comp / Future Partner"
            ELSE classify_firm(row1)]

EnrichStart == [i |-> 1, rows_out |-> <<>>, log |-> <<>>]

---------------------------------------------------------------------------
(* SpecMerge: one call of merge_raw_sources on arbitrary input files *)

MergeNames == {<<"b">>, <<"B">>}
NoWebsites == {<<>>, <<" ">>}
SiteK == <<"https:", "/", "/", "k">>
SiteKUpper == <<"https:", "/", "/", "K", " ">>
SiteO == <<"https:", "/", "/", "o">>

\* Rows with no website under both names and both spellings of "empty";
\* rows with a website: two spellings of one site, and another site
\* under both names.
MergeRows ==
    {Row(n, w, <<>>) : n \in MergeNames, w \in NoWebsites}
    \cup {Row(<<"b">>, SiteK, <<>>), Row(<<"b">>, SiteKUpper, <<>>)}
    \cup {Row(n, SiteO, <<>>) : n \in MergeNames}

NoArgs ==
    [max_search |-> 0, max_conf |-> 0, max_total_rows |-> 0,
     skip_search |-> FALSE, skip_conferences |-> FALSE, skip_enrich |-> FALSE]

NoText == [finance |-> 0, msp |-> 0, trading |-> 0, md |-> 0, oms |-> 0,
           reg |-> 0, fx |-> FALSE]

EmptyDir == [f \in {"search", "conf", "all", "enriched"} |-> NoFile]

InitMerge ==
    /\ pd \in BOOLEAN
    /\ pc = "merge"
    /\ \E all \in SeqsUpTo(MergeRows, MaxRows) :
       \E k \in 0..Len(all), sx \in BOOLEAN, cx \in BOOLEAN :
          \* the rows are split between the two files; a file with no
          \* rows either holds its header only or is missing
          LET s == SubSeq(all, 1, k)
              c == SubSeq(all, k + 1, Len(all))
          IN  fs = [EmptyDir EXCEPT
                      !["search"] = IF s = <<>> /\ ~sx THEN NoFile ELSE File(s),
                      !["conf"] = IF c = <<>> /\ ~cx THEN NoFile ELSE File(c)]
    /\ \E cap \in 0..MaxCap : args = [NoArgs EXCEPT !.max_total_rows = cap]
    /\ merge_out = NoFile
    /\ text = NoText
    /\ cat = ""
    /\ sd = SearchStart
    /\ cs = ConfStart
    /\ en = EnrichStart
    /\ err = ""
    /\ ret = <<>>

\* main's call of merge_raw_sources: the output file is written unless
\* the call returned early.
Merge ==
    /\ pc = "merge"
    /\ LET out == merge_raw_sources(fs["search"], fs["conf"], args.max_total_rows)
       IN  /\ merge_out' = out
           /\ fs' = IF out.exists THEN [fs EXCEPT !["all"] = out] ELSE fs
    /\ pc' = "merged"
    /\ UNCHANGED <<pd, args, text, cat, sd, cs, en, err, ret>>

NextMerge == Merge

SpecMerge == InitMerge /\ [][NextMerge]_vars

---------------------------------------------------------------------------
(* SpecClassify: one call of classify_category on an arbitrary text *)

Texts ==
    [finance : 0..MaxHits, msp : 0..MaxHits, trading : 0..MaxHits,
     md : 0..MaxHits, oms : 0..MaxHits, reg : 0..MaxHits, fx : BOOLEAN]

InitClassify ==
    /\ pd \in BOOLEAN
    /\ pc = "classify"
    /\ args = NoArgs
    /\ fs = EmptyDir
    /\ merge_out = NoFile
    /\ text \in Texts
    /\ cat = ""
    /\ sd = SearchStart
    /\ cs = ConfStart
    /\ en = EnrichStart
    /\ err = ""
    /\ ret = <<>>

Classify ==
    /\ pc = "classify"
    /\ cat' = classify_category(text)
    /\ pc' = "classified"
    /\ UNCHANGED <<pd, args, fs, merge_out, text, sd, cs, en, err, ret>>

NextClassify == Classify

SpecClassify == InitClassify /\ [][NextClassify]_vars

---------------------------------------------------------------------------
(* Spec: main, from an empty data directory *)

\* What the search provider may return for a query.
SearchResults ==
    {[url |-> <<"https:", "/", "/", "K", "/", "p">>,
      title |-> <<"Managed", " ", "IT", " ", "|", " ", "B">>],
     [url |-> SiteO, title |-> <<>>],
     [url |-> <<"https:", "/", "/", "linkedin.com">>, title |-> <<"n">>],
     [url |-> <<>>, title |-> <<"n">>]}

\* What a conference page may hold.
PageEntries ==
    {[name_el |-> TRUE, name |-> <<"n">>, href |-> <<>>],
     [name_el |-> TRUE, name |-> <<" ">>, href |-> <<>>],
     [name_el |-> FALSE, name |-> <<>>, href |-> <<"www.", "o">>],
     [name_el |-> TRUE, name |-> <<"B">>, href |-> <<"https:", "/", "/", "K">>],
     [name_el |-> TRUE, name |-> <<"n", " ">>, href |-> <<"www.", "o">>]}

Pages ==
    {[structure |-> FALSE, entries |-> <<>>]}
    \cup {[structure |-> TRUE, entries |-> es] :
            es \in SeqsUpTo(PageEntries, MaxExhibitors)}

\* The page texts of the sites, in main's runs.
SiteTexts == {[NoText EXCEPT !.trading = 1]}

ArgsSet ==
    [max_search : 0..MaxCap, max_conf : 0..MaxCap, max_total_rows : 0..MaxCap,
     skip_search : BOOLEAN, skip_conferences : BOOLEAN, skip_enrich : BOOLEAN]

Init ==
    /\ pd \in BOOLEAN
    /\ pc = "search"
    /\ args \in ArgsSet
    /\ fs = EmptyDir
    /\ merge_out = NoFile
    /\ text = NoText
    /\ cat = ""
    /\ sd = SearchStart
    /\ cs = ConfStart
    /\ en = EnrichStart
    /\ err = ""
    /\ ret = <<>>

SearchLooping == pc = "search" /\ ~args.skip_search /\ ~sd.stopped /\ sd.q <= MaxQueries

SearchSkipped ==
    /\ pc = "search" /\ args.skip_search
    /\ pc' = "conf"
    /\ UNCHANGED <<pd, args, fs, merge_out, text, cat, sd, cs, en, err, ret>>

SearchFails ==
    /\ SearchLooping
    /\ sd' = QueryFailed(sd)
    /\ UNCHANGED <<pd, pc, args, fs, merge_out, text, cat, cs, en, err, ret>>

SearchAnswers ==
    /\ SearchLooping
    /\ \E results \in SeqsUpTo(SearchResults, MaxResults) :
          sd' = QueryAnswered(sd, results, args.max_search)
    /\ UNCHANGED <<pd, pc, args, fs, merge_out, text, cat, cs, en, err, ret>>

\* After the loop: the file is written unless no row was discovered.
SearchEnds ==
    /\ pc = "search" /\ ~args.skip_search
    /\ sd.stopped \/ sd.q > MaxQueries
    /\ fs' = IF sd.rows = <<>> THEN fs ELSE [fs EXCEPT !["search"] = File(sd.rows)]
    /\ pc' = "conf"
    /\ UNCHANGED <<pd, args, merge_out, text, cat, sd, cs, en, err, ret>>

ConfLooping ==
    pc = "conf" /\ ~args.skip_conferences /\ ~cs.stopped /\ cs.i <= NumConferences

ConfSkipped ==
    /\ pc = "conf" /\ args.skip_conferences
    /\ pc' = "merge"
    /\ UNCHANGED <<pd, args, fs, merge_out, text, cat, sd, cs, en, err, ret>>

ConfFails ==
    /\ ConfLooping
    /\ cs' = ConfFailed(cs, args.max_conf)
    /\ UNCHANGED <<pd, pc, args, fs, merge_out, text, cat, sd, en, err, ret>>

\* fetch_html returned one of the pages and the parser ran on it.
ConfParsesOf(pages) ==
    /\ ConfLooping
    /\ \E page \in pages : cs' = ConfParsed(cs, page, args.max_conf)
    /\ UNCHANGED <<pd, pc, args, fs, merge_out, text, cat, sd, en, err, ret>>

ConfParses == ConfParsesOf(Pages)

\* After the loop: the rows are cut to max_rows and written, unless none.
ConfEnds ==
    /\ pc = "conf" /\ ~args.skip_conferences
    /\ cs.stopped \/ cs.i > NumConferences
    /\ LET all_rows == Truncate(cs.all_rows, args.max_conf)
       IN  fs' = IF all_rows = <<>> THEN fs
                 ELSE [fs EXCEPT !["conf"] = File(all_rows)]
    /\ pc' = "merge"
    /\ UNCHANGED <<pd, args, merge_out, text, cat, sd, cs, en, err, ret>>

EnrichSkipped ==
    /\ pc = "merged" /\ args.skip_enrich
    /\ pc' = "done"
    /\ UNCHANGED <<pd, args, fs, merge_out, text, cat, sd, cs, en, err, ret>>

\* enrich opens its input file: open() raises when the file is missing,
\* and nothing in enrich or main catches it.
EnrichOpens ==
    /\ pc = "merged" /\ ~args.skip_enrich
    /\ IF fs["all"].exists
       THEN pc' = "enrich" /\ err' = err
       ELSE pc' = "crashed" /\ err' = "FileNotFoundError"
    /\ UNCHANGED <<pd, args, fs, merge_out, text, cat, sd, cs, en, ret>>

EnrichLooping == pc = "enrich" /\ en.i <= Len(fs["all"].rows)

\* A row whose Website is empty after strip() is passed over.
EnrichSkipsRow ==
    /\ EnrichLooping
    /\ Strip(fs["all"].rows[en.i].Website) = <<>>
    /\ en' = [en EXCEPT !.i = @ + 1,
                        !.log = Append(@, [fetch |-> "none", category |-> ""])]
    /\ UNCHANGED <<pd, pc, args, fs, merge_out, text, cat, sd, cs, err, ret>>

\* fetch_site_text returned page_text; fetch names how ("ok" or "failed").
EnrichRow(page_text, fetch) ==
    /\ EnrichLooping
    /\ Strip(fs["all"].rows[en.i].Website) # <<>>
    /\ en' = [en EXCEPT
                !.i = @ + 1,
                !.rows_out = Append(@, EnrichedRow(fs["all"].rows[en.i], page_text)),
                !.log = Append(@, [fetch |-> fetch,
                                   category |-> classify_category(page_text)])]
    /\ UNCHANGED <<pd, pc, args, fs, merge_out, text, cat, sd, cs, err, ret>>

\* safe_get raised: fetch_site_text returns "".
EnrichFetchFails == EnrichRow(NoText, "failed")

EnrichFetches(texts) == \E t \in texts : EnrichRow(t, "ok")

\* After the loop: the file is written unless no row was enriched.
EnrichEnds ==
    /\ pc = "enrich" /\ en.i > Len(fs["all"].rows)
    /\ fs' = IF en.rows_out = <<>> THEN fs
             ELSE [fs EXCEPT !["enriched"] = File(en.rows_out)]
    /\ pc' = "done"
    /\ UNCHANGED <<pd, args, merge_out, text, cat, sd, cs, en, err, ret>>

Next ==
    \/ SearchSkipped \/ SearchFails \/ SearchAnswers \/ SearchEnds
    \/ ConfSkipped \/ ConfFails \/ ConfParses \/ ConfEnds
    \/ Merge
    \/ EnrichSkipped \/ EnrichOpens \/ EnrichSkipsRow
    \/ EnrichFetchFails \/ EnrichFetches(SiteTexts) \/ EnrichEnds

Spec == Init /\ [][Next]_vars

---------------------------------------------------------------------------
(* SpecEnrich: one call of enrich on an arbitrary input file *)

EnrichNames == {<<"b">>, <<"B", " ">>, <<"n">>}
EnrichWebsites ==
    {<<>>, SiteK, SiteKUpper, SiteO, <<"k">>, <<"https:", "/", "/", "www.", "k">>}
EnrichInputRows == {Row(n, w, <<>>) : n \in EnrichNames, w \in EnrichWebsites}

Hits(t) == t.finance + t.msp + t.trading + t.md + t.oms + t.reg

EnrichTexts == {t \in Texts : Hits(t) <= MaxPhrases}

InitEnrich ==
    /\ pd \in BOOLEAN
    /\ pc = "merged"
    /\ args = NoArgs
    /\ \E rows \in SeqsUpTo(EnrichInputRows, MaxEnrichRows), x \in BOOLEAN :
          fs = [EmptyDir EXCEPT
                  !["all"] = IF rows = <<>> /\ ~x THEN NoFile ELSE File(rows)]
    /\ merge_out = NoFile
    /\ text = NoText
    /\ cat = ""
    /\ sd = SearchStart
    /\ cs = ConfStart
    /\ en = EnrichStart
    /\ err = ""
    /\ ret = <<>>

NextEnrich ==
    \/ EnrichOpens \/ EnrichSkipsRow
    \/ EnrichFetchFails \/ EnrichFetches(EnrichTexts) \/ EnrichEnds

SpecEnrich == InitEnrich /\ [][NextEnrich]_vars

---------------------------------------------------------------------------
(* SpecClean: one call of clean_result_name on an arbitrary title *)

NextGenSeg == <<"NextGen", " ", "IT", " ", "Services", " ", "For", " ",
                "Hedge", " ", "Funds">>
ManagedSeg == <<"Managed", " ", "IT", " ", "Services">>
ManagedForSeg == <<"Managed", " ", "IT", " ", "Services", " ", "for", " ",
                   "Hedge", " ", "Funds">>
OmegaSeg == <<"Omega", " ", "Systems">>
\* A segment of seven words, none of them a marketing word.
LongSeg == <<"Omega", " ", "Systems", " ", "Omega", " ", "Systems", " ",
             "Omega", " ", "Systems", " ", "Omega">>

\* What may stand between two separators of a title.
Segments ==
    {<<>>, <<" ">>, NextGenSeg, ManagedSeg, ManagedForSeg, OmegaSeg, LongSeg,
     <<"Citadel">>}

\* The segments joined by the separator sep, with blanks around it if pad.
RECURSIVE Join(_, _, _)
Join(segs, sep, pad) ==
    IF Len(segs) <= 1 THEN Concat(segs)
    ELSE Head(segs) \o (IF pad THEN <<" ", sep, " ">> ELSE <<sep>>)
         \o Join(Tail(segs), sep, pad)

Titles ==
    {Join(segs, sep, pad) :
        segs \in SeqsUpTo(Segments, MaxSegments), sep \in Separators,
        pad \in BOOLEAN}

InitClean ==
    /\ pd \in BOOLEAN
    /\ pc = "clean"
    /\ \E title \in Titles :
          args = [title |-> title, domain_fallback |-> <<"k">>]
    /\ fs = EmptyDir
    /\ merge_out = NoFile
    /\ text = NoText
    /\ cat = ""
    /\ sd = SearchStart
    /\ cs = ConfStart
    /\ en = EnrichStart
    /\ err = ""
    /\ ret = <<>>

Clean ==
    /\ pc = "clean"
    /\ ret' = clean_result_name(args.title, args.domain_fallback)
    /\ pc' = "cleaned"
    /\ UNCHANGED <<pd, args, fs, merge_out, text, cat, sd, cs, en, err>>

NextClean == Clean

SpecClean == InitClean /\ [][NextClean]_vars

---------------------------------------------------------------------------
(* SpecHq: one call of guess_hq on an arbitrary page text *)

\* The pieces a page text is put together from: explicit phrases (one in
\* upper case, one with a region that is no US state, one with no region),
\* hub keywords, "City, ST" with and without a US state, and punctuation.
HqChunks ==
    {<<"Based in", " ", "Chicago", ",", " ", "IL">>,
     <<"headquartered in", " ", "springfield", ",", "ny">>,
     <<"headquarters in", " ", "london", ",", " ", "uk">>,
     <<"based in", " ", "chicago">>,
     <<"new york">>,
     <<"london">>,
     <<"springfield", ",", " ", "il">>,
     <<"springfield", ",", " ", "uk">>,
     <<"springfield">>,
     <<",", " ", "ny">>,
     <<".", " ">>,
     <<" ">>}

HqTexts == {Concat(cs_) : cs_ \in SeqsUpTo(HqChunks, MaxChunks)}

InitHq ==
    /\ pd \in BOOLEAN
    /\ pc = "guess_hq"
    /\ \E t \in HqTexts : args = [text |-> t]
    /\ fs = EmptyDir
    /\ merge_out = NoFile
    /\ text = NoText
    /\ cat = ""
    /\ sd = SearchStart
    /\ cs = ConfStart
    /\ en = EnrichStart
    /\ err = ""
    /\ ret = <<>>

GuessHq ==
    /\ pc = "guess_hq"
    /\ ret' = guess_hq(args.text)
    /\ pc' = "guessed"
    /\ UNCHANGED <<pd, args, fs, merge_out, text, cat, sd, cs, en, err>>

NextHq == GuessHq

SpecHq == InitHq /\ [][NextHq]_vars

---------------------------------------------------------------------------
(* SpecParse: one call of an exhibitor parser on an arbitrary page *)

ParsePages ==
    {[structure |-> FALSE, entries |-> <<>>]}
    \cup {[structure |-> TRUE, entries |-> es] :
            es \in SeqsUpTo(PageEntries, MaxCards)}

InitParse ==
    /\ pd \in BOOLEAN
    /\ pc = "parse"
    /\ \E conf \in 1..NumConferences, page \in ParsePages :
          args = [conf |-> conf, html |-> page]
    /\ fs = EmptyDir
    /\ merge_out = NoFile
    /\ text = NoText
    /\ cat = ""
    /\ sd = SearchStart
    /\ cs = ConfStart
    /\ en = EnrichStart
    /\ err = ""
    /\ ret = <<>>

\* Neither parser has a statement that raises on a page: the call returns.
Parse ==
    /\ pc = "parse"
    /\ ret' = Parser(args.conf, args.html)
    /\ pc' = "parsed"
    /\ UNCHANGED <<pd, args, fs, merge_out, text, cat, sd, cs, en, err>>

NextParse == Parse

SpecParse == InitParse /\ [][NextParse]_vars

---------------------------------------------------------------------------
(* SpecDiscovery: run_search_discovery, then run_conference_scrape, under
   every pair of row caps *)

\* The pages of the conferences: entries with a name, with a blank name
\* and with a link.
DiscoveryEntries ==
    {e \in PageEntries : e.name_el /\ ~StartsWith(e.href, "www.")}

DiscoveryPages ==
    {[structure |-> FALSE, entries |-> <<>>]}
    \cup {[structure |-> TRUE, entries |-> es] :
            es \in SeqsUpTo(DiscoveryEntries, MaxListed)}

InitDiscovery ==
    /\ pd \in BOOLEAN
    /\ pc = "search"
    /\ \E max_search \in 0..MaxCap, max_conf \in 0..MaxCap :
          args = [NoArgs EXCEPT !.max_search = max_search, !.max_conf = max_conf]
    /\ fs = EmptyDir
    /\ merge_out = NoFile
    /\ text = NoText
    /\ cat = ""
    /\ sd = SearchStart
    /\ cs = ConfStart
    /\ en = EnrichStart
    /\ err = ""
    /\ ret = <<>>

NextDiscovery ==
    \/ SearchFails \/ SearchAnswers \/ SearchEnds
    \/ ConfFails \/ ConfParsesOf(DiscoveryPages) \/ ConfEnds

SpecDiscovery == InitDiscovery /\ [][NextDiscovery]_vars

---------------------------------------------------------------------------
(* Claims about merge_raw_sources, under SpecMerge *)

MergeIn == fs["search"].rows \o fs["conf"].rows
MergeDone == pc = "merged"
Out == merge_out.rows

name_norm(r) == Lower(Strip(r.Name))

\* The index of the first input row whose website normalizes to w.
FirstWithSite(w) ==
    CHOOSE i \in 1..Len(MergeIn) :
        /\ website_norm(MergeIn[i]) = w
        /\ \A j \in 1..(i - 1) : website_norm(MergeIn[j]) # w

InputSites == {website_norm(MergeIn[i]) : i \in 1..Len(MergeIn)} \ {<<>>}

OutWithSite(w) == {i \in 1..Len(Out) : website_norm(Out[i]) = w}

\* For every website of the inputs, the output holds no row but the first
\* input row carrying it, and holds that row when no cap is set.
FirstSiteWins ==
    \A w \in InputSites :
        /\ \A i \in OutWithSite(w) : Out[i] = MergeIn[FirstWithSite(w)]
        /\ Cardinality(OutWithSite(w)) <= 1
        /\ args.max_total_rows = 0 =>
              merge_out.exists /\ Cardinality(OutWithSite(w)) = 1

\* C1 as stated: after merge_raw_sources, no two rows of the output have
\* equal Website values after trim+lowercase, and for every non-empty
\* normalized website of the inputs the row kept is the first carrying it.
C1_AsStated ==
    MergeDone =>
        /\ \A i, j \in 1..Len(Out) :
              i # j => website_norm(Out[i]) # website_norm(Out[j])
        /\ FirstSiteWins

\* C1, amended: after merge_raw_sources, no two rows of the output have
\* equal NON-EMPTY Website values after trim+lowercase (rows without a
\* website may well be several), and for every non-empty normalized website
\* of the inputs the row kept is the first one carrying it.
C1_WebsiteDedup ==
    MergeDone =>
        /\ \A i, j \in 1..Len(Out) :
              i # j /\ website_norm(Out[i]) # <<>> =>
                  website_norm(Out[i]) # website_norm(Out[j])
        /\ FirstSiteWins

\* Two spellings of one website met in the inputs, in either order, and the
\* first was written.
C1_Witness ==
    /\ MergeDone
    /\ merge_out.exists
    /\ \E i, j \in 1..Len(MergeIn) :
          /\ i < j
          /\ MergeIn[i].Website # MergeIn[j].Website
          /\ website_norm(MergeIn[i]) = website_norm(MergeIn[j])
          /\ website_norm(MergeIn[i]) # <<>>
          /\ \E k \in 1..Len(Out) : Out[k] = MergeIn[i]

\* The index of the first input row with no website whose name normalizes
\* to n.
FirstWithName(n) ==
    CHOOSE i \in 1..Len(MergeIn) :
        /\ website_norm(MergeIn[i]) = <<>> /\ name_norm(MergeIn[i]) = n
        /\ \A j \in 1..(i - 1) :
              ~(website_norm(MergeIn[j]) = <<>> /\ name_norm(MergeIn[j]) = n)

InputNamesNoSite ==
    {name_norm(MergeIn[i]) :
        i \in {k \in 1..Len(MergeIn) : website_norm(MergeIn[k]) = <<>>}}

OutNoSiteNamed(n) ==
    {i \in 1..Len(Out) : website_norm(Out[i]) = <<>> /\ name_norm(Out[i]) = n}

\* C2 as stated: with no cap, for every normalized name of the input rows
\* that have no website, the output holds exactly one row with no website
\* and that normalized name, and it is the first-seen one.
C2_NameDedup ==
    MergeDone /\ args.max_total_rows = 0 =>
        \A n \in InputNamesNoSite :
            /\ merge_out.exists
            /\ Cardinality(OutNoSiteNamed(n)) = 1
            /\ \A i \in OutNoSiteNamed(n) : Out[i] = MergeIn[FirstWithName(n)]

\* a occurs in b as a subsequence.
RECURSIVE IsSubseq(_, _)
IsSubseq(a, b) ==
    IF a = <<>> THEN TRUE
    ELSE IF b = <<>> THEN FALSE
    ELSE IF Head(a) = Head(b) THEN IsSubseq(Tail(a), Tail(b))
    ELSE IsSubseq(a, Tail(b))

\* What the same call writes with no cap.
Uncapped == merge_raw_sources(fs["search"], fs["conf"], 0).rows

\* C3 as stated: the rows written are in the relative order they have in
\* search ++ conference, and under a cap that is exceeded they are exactly
\* the first max_total_rows rows of that ordered deduplicated sequence.
C3_OrderPreserved ==
    MergeDone /\ merge_out.exists =>
        /\ IsSubseq(Uncapped, MergeIn)
        /\ Out = Truncate(Uncapped, args.max_total_rows)

\* The dedup key of the specification: the normalized website, or the
\* normalized name of a row without one.
DedupKey(r) ==
    IF website_norm(r) # <<>> THEN <<"website", website_norm(r)>>
    ELSE <<"name", name_norm(r)>>

Deduplicated(S) ==
    \A i, j \in 1..Len(S) : i # j => DedupKey(S[i]) # DedupKey(S[j])

\* C4 as stated: merging an already-deduplicated sequence S with itself,
\* with no cap, writes exactly S.
C4_Idempotent ==
    /\ MergeDone
    /\ args.max_total_rows = 0
    /\ fs["search"].exists /\ fs["conf"].exists
    /\ fs["search"].rows = fs["conf"].rows
    /\ Deduplicated(fs["search"].rows)
    => merge_out.exists /\ Out = fs["search"].rows

---------------------------------------------------------------------------
(* Claims about classify_category, under SpecClassify *)

CategorySet == {Categories[i] : i \in 1..Len(Categories)}

\* The scores of the specification's scoring rules (section 4.2), by
\* position in the fixed enumeration order.
RefScore(t) ==
    <<IF t.finance > 0 /\ t.msp > 0 THEN t.finance * 3 + t.msp * 2
      ELSE IF t.finance > 0 THEN t.finance * 2 ELSE t.msp,
      t.trading * 3,
      t.md * 3,
      IF t.oms >= 2 THEN t.oms * 3
      ELSE IF t.oms = 1 /\ (t.trading > 0 \/ t.md > 0 \/ t.fx) THEN 3 ELSE 0,
      t.reg * 3,
      IF t.msp > 0 /\ t.finance + t.trading + t.md + t.oms + t.reg = 0
      THEN 1 ELSE 0>>

RefMax(t) ==
    CHOOSE m \in {RefScore(t)[i] : i \in 1..6} :
        \A i \in 1..6 : RefScore(t)[i] <= m

---------------------------------------------------------------------------
(* Claims about enrich, under SpecEnrich *)

\* The rows enrich has enriched so far, and those it wrote.
Enriched == en.rows_out \o fs["enriched"].rows

KnownDomain(row) == domain_from_url(Strip(row.Website)) \in KNOWN_FINANCIAL_MSPS

\* C6: every row enriched whose website domain is in KNOWN_FINANCIAL_MSPS
\* has Category "Financial MSP" and Fit "Core", whatever the page text was
\* and whatever classify_category returned for it.
C6_KnownMspOverride ==
    \A i \in 1..Len(Enriched) :
        KnownDomain(Enriched[i]) =>
            Enriched[i].Category = "Financial MSP" /\ Enriched[i].Fit = "Core"

\* A row of a known domain, spelled in upper case, was written after its
\* fetch failed and classify_category returned Generic IT for the empty text.
C6_Witness ==
    /\ pc = "done"
    /\ fs["enriched"].exists
    /\ \E i \in 1..Len(fs["enriched"].rows) :
          /\ fs["enriched"].rows[i].Website = SiteKUpper
          /\ en.log[i] = [fetch |-> "failed", category |-> "Generic IT"]
          /\ fs["enriched"].rows[i].Category = "Financial MSP"

Target == "Potential acquisition target (near-term)"
Comp == "Pattern / Comp / Future Partner"

\* C7: a row written by enrich is classified "Potential acquisition target
\* (near-term)" iff its Fit is Core, its Category is one of the five core
\* lanes and its normalized name is not a known comp; otherwise it is
\* classified "Pattern / Comp / Future Partner".
C7_Classification ==
    \A i \in 1..Len(Enriched) :
        LET r == Enriched[i]
            target == /\ r.Fit = "Core"
                      /\ r.Category \in
                            {"Financial MSP", "Trading Infra MSP", "Market Data Ops",
                             "OMS/EMS & FIX", "RegOps / Surveillance"}
                      /\ Lower(Strip(r.Name)) \notin KNOWN_COMP_NAMES
        IN  r.Classification = IF target THEN Target ELSE Comp

\* A Core row in a core lane whose name is a known comp in another
\* spelling was written as a comp.
C7_Witness ==
    /\ pc = "done"
    /\ \E i \in 1..Len(fs["enriched"].rows) :
          LET r == fs["enriched"].rows[i]
          IN  /\ r.Name = <<"B", " ">>
              /\ r.Fit = "Core" /\ r.Category = "Market Data Ops"
              /\ r.Classification = Comp

---------------------------------------------------------------------------
(* Claims about main, under Spec *)

Issued(log, kinds) == Len(SelectSeq(log, LAMBDA e : e \in kinds))

SearchOver == ~args.skip_search /\ pc # "search"
ConfOver == ~args.skip_conferences /\ pc \notin {"search", "conf"}

\* C8 as stated: a failed search call, conference scrape or page fetch
\* aborts nothing after it.  Once run_search_discovery is over every query
\* was issued unless the row cap was reached; once run_conference_scrape
\* is over every conference after a failed one was scraped; once enrich is
\* over every row after a failed page fetch was enriched and written.
C8_FailureIsolated ==
    /\ SearchOver /\ Issued(sd.log, {"search_failed"}) > 0 =>
          \/ Issued(sd.log, {"search_failed", "search_ok"}) = MaxQueries
          \/ CapReached(args.max_search, sd.total_rows)
    /\ ConfOver /\ cs.log # <<>> /\ Head(cs.log) = "conf_failed" =>
          Len(cs.log) = NumConferences
    /\ pc = "done" /\ ~args.skip_enrich =>
          \A i, j \in 1..Len(en.log) :
              i < j /\ en.log[i].fetch = "failed" =>
                  /\ en.log[j].fetch \in {"ok", "failed"}
                  /\ \E k \in 1..Len(fs["enriched"].rows) :
                        /\ fs["enriched"].rows[k].Name = fs["all"].rows[j].Name
                        /\ fs["enriched"].rows[k].Website = fs["all"].rows[j].Website
                        /\ fs["enriched"].rows[k].Source = fs["all"].rows[j].Source

\* The input row r is in the enriched output.
InEnriched(r) ==
    \E k \in 1..Len(fs["enriched"].rows) :
        /\ fs["enriched"].rows[k].Name = r.Name
        /\ fs["enriched"].rows[k].Website = r.Website
        /\ fs["enriched"].rows[k].Source = r.Source

\* C9 as stated: with no cap on the merged rows, once merge and enrich
\* have run every row a discovery stage wrote is in the enriched output,
\* unless an earlier row with the same dedup key is there in its place.
C9_NoRecordLost ==
    pc = "done" /\ ~args.skip_enrich /\ args.max_total_rows = 0 =>
        \A i \in 1..Len(MergeIn) :
            \/ InEnriched(MergeIn[i])
            \/ \E j \in 1..(i - 1) :
                  /\ DedupKey(MergeIn[j]) = DedupKey(MergeIn[i])
                  /\ InEnriched(MergeIn[j])

\* C10 as stated: when neither merge input exists (both discovery stages
\* wrote nothing), merge_raw_sources followed by enrich ends without an
\* error and with an empty final output.
C10_ExhaustionNotFatal ==
    /\ pc \in {"merged", "enrich", "done", "crashed"}
    /\ ~args.skip_enrich
    /\ ~fs["search"].exists /\ ~fs["conf"].exists
    => /\ pc # "crashed" /\ err = ""
       /\ fs["enriched"].rows = <<>>

---------------------------------------------------------------------------
(* Claims about clean_result_name, under SpecClean *)

\* The segments of the title, its base and its brand.
TitleSegments == Parts(args.title)
Base == TitleSegments[1]
Brand == TitleSegments[Len(TitleSegments)]

NextGenTitle == NextGenSeg \o <<" ", "|", " ">> \o ManagedSeg
OmegaTitle == ManagedForSeg \o <<" ", "|", " ">> \o OmegaSeg

---------------------------------------------------------------------------
(* Claims about guess_hq, under SpecHq *)

HqText == Lower(args.text)

\* The explicit phrases and the hub entries that match the text.
ExplicitMatched == {i \in 1..Len(hq_patterns) : PhraseMatches(HqText, hq_patterns[i]) # {}}
HubsMatched == {i \in 1..Len(hub_map) : HubHit(HqText, hub_map[i].keys)}

\* "Based in Chicago, IL. new york": an explicit phrase, and a hub keyword
\* elsewhere.
ChicagoText ==
    <<"Based in", " ", "Chicago", ",", " ", "IL", ".", " ", "new york">>

\* C12: guess_hq applies its three strategies in strict priority order.
\* When an explicit phrase matches, the result is derived from an explicit
\* phrase, whatever hub keyword or "City, ST" pattern the text also holds;
\* the hub map decides only when no explicit phrase matches, the generic
\* pattern only when neither matches, and the result is empty only when
\* none matches.  For "Based in Chicago, IL" with "new york" elsewhere the
\* result is "Chicago, IL".
C12_PriorityOrder ==
    pc = "guessed" =>
        /\ ExplicitMatched # {} =>
              \E i \in ExplicitMatched : ret = PhraseResult(HqText, hq_patterns[i])
        /\ ExplicitMatched = {} /\ HubsMatched # {} =>
              ret = hub_map[Min(HubsMatched)].label
        /\ ExplicitMatched = {} /\ HubsMatched = {} /\ GenericMatches(HqText) # {} =>
              ret = GenericResult(HqText)
        /\ ret = <<>> =>
              ExplicitMatched = {} /\ HubsMatched = {} /\ GenericMatches(HqText) = {}
        /\ args.text = ChicagoText => ret = <<"Chicago", ",", " ", "IL">>

\* The explicit phrase won over a hub keyword held by the same text.
C12_Witness ==
    /\ pc = "guessed"
    /\ args.text = ChicagoText
    /\ ExplicitMatched # {} /\ HubHit(HqText, {"new york"})
    /\ ret = <<"Chicago", ",", " ", "IL">>

---------------------------------------------------------------------------
(* Claims about the exhibitor parsers, under SpecParse *)

\* C13 as stated: every record parse_fia_expo or parse_tradetech_fx
\* returns has a non-empty Name (an entry with no extractable name is
\* dropped), and a page lacking the expected structure yields the empty
\* sequence and no error.
C13_NamedRecords ==
    pc = "parsed" =>
        /\ \A i \in 1..Len(ret) : ret[i].Name # <<>>
        /\ ~args.html.structure => ret = <<>>
        /\ err = ""

---------------------------------------------------------------------------
(* Claims about the discovery stages, under SpecDiscovery *)

SearchCalls == Issued(sd.log, {"search_ok", "search_failed"})
ConfCalls == Issued(cs.log, {"conf_ok", "conf_failed"})

\* What each parser can return on the pages of the model.
ParserOutputs ==
    [conf \in 1..NumConferences |-> {Parser(conf, page) : page \in DiscoveryPages}]

\* A conference was scraped in this step, and what its parser returned
\* was taken whole.
ConfCallWhole ==
    Len(cs'.log) > Len(cs.log) /\ cs'.log[Len(cs'.log)] = "conf_ok" =>
        /\ Len(cs'.all_rows) >= Len(cs.all_rows)
        /\ SubSeq(cs'.all_rows, 1, Len(cs.all_rows)) = cs.all_rows
        /\ SubSeq(cs'.all_rows, Len(cs.all_rows) + 1, Len(cs'.all_rows))
              \in ParserOutputs[cs.i]

\* C14: each discovery stage respects its row cap.  With max_rows > 0,
\* run_search_discovery never holds more than max_rows rows and makes no
\* search call once total_rows has reached the cap; run_conference_scrape
\* writes at most max_rows rows and scrapes no conference once all_rows has
\* reached the cap.  The cap is tested between iterations only: the rows of
\* a conference scraped are all taken, and cut down after the loop.
C14_RowCaps ==
    /\ [](args.max_search > 0 =>
            /\ Len(sd.rows) <= args.max_search
            /\ fs["search"].exists => Len(fs["search"].rows) <= args.max_search)
    /\ [](args.max_conf > 0 /\ fs["conf"].exists =>
            Len(fs["conf"].rows) <= args.max_conf)
    /\ [][/\ args.max_search > 0 /\ sd.total_rows >= args.max_search =>
                SearchCalls' = SearchCalls
          /\ args.max_conf > 0 /\ Len(cs.all_rows) >= args.max_conf =>
                ConfCalls' = ConfCalls
          /\ ConfCallWhole]_vars

\* Both stages stopped on their cap with work left: a query was never
\* issued, the second conference never scraped, and the first conference
\* gave more rows than the cap, of which max_rows were written.
C14_Witness ==
    /\ pc = "merge"
    /\ args.max_search > 0 /\ Len(sd.rows) = args.max_search
    /\ SearchCalls < MaxQueries
    /\ args.max_conf > 0 /\ ConfCalls = 1
    /\ Len(cs.all_rows) > args.max_conf
    /\ Len(fs["conf"].rows) = args.max_conf

\* C15 as stated: between any two consecutive calls of search_web, whether
\* the earlier one returned or raised, run_search_discovery sleeps at least
\* once.
C15_PacedQueries ==
    \A i, j \in 1..Len(sd.log) :
        /\ i < j
        /\ sd.log[i] \in {"search_ok", "search_failed"}
        /\ sd.log[j] \in {"search_ok", "search_failed"}
        => \E k \in (i + 1)..(j - 1) : sd.log[k] \in {"sleep5", "sleep30"}

---------------------------------------------------------------------------
(* The plain MSP, under SpecClassify *)

\* C16 as stated: for a text with at least one MSP phrase and no phrase of
\* the finance, trading-infra, market-data, OMS/EMS and RegOps lexicons,
\* classify_category returns Generic IT.
C16_PlainMspIsGeneric ==
    /\ pc = "classified"
    /\ text.msp > 0
    /\ text.finance = 0 /\ text.trading = 0 /\ text.md = 0
    /\ text.oms = 0 /\ text.reg = 0
    => cat = "Generic IT"

====
